---- MODULE Spec2Model ----
(***************************************************************************)
(* A2E avatar -> TTS -> video pipeline (src/main.py).                      *)
(*                                                                         *)
(* Three parts of the program are modelled:                                *)
(*   - the two pollers A2EClient.wait_until_avatar_ready and               *)
(*     A2EClient.wait_until_video_ready (specification SpecPoll),          *)
(*   - run_pipeline together with the __main__ exit codes (Spec),          *)
(*   - the pure function _first_url_from (SpecExt).                        *)
(* Time is in seconds; a string is a sequence of atoms (see Lower).        *)
(***************************************************************************)
EXTENDS Integers, Sequences, FiniteSets, TLC

VARIABLES
    \* ---- one invocation of a poller (wait_until_*_ready) ----
    pk,         \* which poller runs: "avatar", "video" or "none"
    pid,        \* its avatar_id / task_id argument
    timeout_s,  \* its timeout_s argument
    poll_s,     \* its poll_s argument
    ppc,        \* position: "idle", "iter", "sleep" or an exit
    elapsed,    \* time.time() - start
    item,       \* local `item`: the response of the last fetch
    status,     \* local `status`
    result,     \* the returned item, or the item a job-failed error carries
    nfetch,     \* fetches made by this invocation
    nsleep,     \* sleeps made by this invocation
    slept,      \* seconds slept by this invocation
    fetchErr,   \* a fetch of this invocation raised
    \* ---- one call of _first_url_from ----
    xobj,       \* its obj argument
    xexts,      \* its exts argument
    xres,       \* its return value
    xpc,        \* "idle", "call" or "done"
    \* ---- the process: __main__, main, run_pipeline ----
    pc,         \* position in run_pipeline ("standalone", "extractor": a
                \* poller or _first_url_from called on its own)
    exitCode,   \* the process exit code, -1 while it runs
    cmdline,    \* argv: "ok" (accepted), "help" (--help) or "bad" (rejected)
    token,      \* A2E_API_TOKEN is set
    auto_approve,
    lip_sync,
    image_url,  \* locals of run_pipeline
    ans,        \* what the operator typed, NoAnswer before the prompt
    av_start,
    avatar_id,
    audio_src,
    anchor_id,
    vid,
    task_id,
    video_url,
    vresult,    \* local `result`: the awsResult response (status and body)
    calls,      \* API calls issued, consecutive repeats of one call merged
    \* ---- history ----
    raisedAt,   \* Len(calls) when a call or a poll loop first raised, else 0
    badCodeAt,  \* Len(calls) when a response first had a code other than 0
    missingAt,  \* Len(calls) when a response first lacked an expected field
    readySeen,  \* a poll loop of the run returned on a success status
    sleepsRun,  \* sleeps the process has made, counted up to MaxCounted
    pendingRun  \* pending statuses it has fetched, counted up to MaxCounted

pollVars == <<pk, pid, timeout_s, poll_s, ppc, elapsed, item, status, result,
              nfetch, nsleep, slept, fetchErr>>
extVars == <<xobj, xexts, xres, xpc>>
argVars == <<cmdline, token, auto_approve, lip_sync>>
localVars == <<image_url, ans, av_start, avatar_id, audio_src, anchor_id, vid,
               task_id, video_url, vresult>>
histVars == <<raisedAt, missingAt, readySeen, sleepsRun, pendingRun>>
vars == <<pollVars, extVars, argVars, localVars, histVars, pc, exitCode,
          calls, badCodeAt>>

----------------------------------------------------------------------------
\* Bounds of the model
MaxTimeout == 3     \* timeout_s of a poller called alone ranges over 0..MaxTimeout
MaxPoll == 2        \* poll_s of a poller called alone ranges over 0..MaxPoll
MaxFetchDur == 2    \* a status fetch takes 0..MaxFetchDur seconds
MaxFetches == 7     \* a poller called alone is followed for MaxFetches fetches
MaxKids == 2        \* a list or dict of a payload has at most MaxKids elements
MaxExts == 2        \* a preference list has at most MaxExts extensions
MaxStall == 1801    \* inside run_pipeline a status fetch takes 0 or MaxStall seconds
MaxCounted == 3     \* sleepsRun and pendingRun stop counting at MaxCounted

----------------------------------------------------------------------------
\* Program constants
DefaultTimeoutS == 1800     \* timeout_s: int = 1800
DefaultPollS == 20          \* poll_s: int = 20

----------------------------------------------------------------------------
\* Values

\* Python None as a status (key absent under .get, or JSON null)
None == "<None>"
\* the status key is missing from the data object
Missing == "<missing>"
\* the exception raised by the video poller's subscripting
StatusError == "<raise>"

\* status strings a server can report: the two vocabularies and one other
StatusStrings ==
    {"ready", "trained", "succeeded", "completed", "success",
     "failed", "error", "training"}

Ids == {"id1", "id2"}

NoItem == [code |-> -1, data |-> "-", status |-> "-"]

\* JSON bodies of a status response: the envelope code, the shape of `data`
\* ("absent": no data key or null; "empty": {} or []; "obj": the object, or
\* the list whose first element is the object, that holds the status key)
Items ==
    { [code |-> c, data |-> d, status |-> None] : c \in {0, 1}, d \in {"absent", "empty"} }
    \cup
    { [code |-> c, data |-> "obj", status |-> s] :
        c \in {0, 1}, s \in StatusStrings \cup {None, Missing} }

----------------------------------------------------------------------------
\* Strings and _first_url_from
\*
\* A string is a sequence of atoms. An atom is a run of characters that the
\* program never looks inside: a scheme ("https://"), a host-and-stem
\* ("x/a"), an extension (".mp4"), "?", a blank, a quote, a word.

\* str.lower() on one atom
LowerAtom(a) ==
    CASE a = ".MP4" -> ".mp4"
      [] a = ".JPG" -> ".jpg"
      [] a = "Y" -> "y"
      [] a = "YES" -> "yes"
      [] a = "Yes" -> "yes"
      [] OTHER -> a

\* str.lower()
Lower(s) == [i \in 1 .. Len(s) |-> LowerAtom(s[i])]

\* the characters [\s"'] that end a URL match
IsDelimiter(a) == a \in {" ", "'"}

\* the prefix https?:// of a URL match
IsScheme(a) == a \in {"https://", "http://"}

\* s.split("?", 1)[0]
BeforeQuery(s) ==
    IF \E i \in 1 .. Len(s) : s[i] = "?"
    THEN SubSeq(s, 1, (CHOOSE i \in 1 .. Len(s) :
                          s[i] = "?" /\ \A j \in 1 .. i - 1 : s[j] # "?") - 1)
    ELSE s

\* s.endswith(e)
EndsWith(s, e) ==
    Len(e) <= Len(s) /\ SubSeq(s, Len(s) - Len(e) + 1, Len(s)) = e

\* the test of line 89 without the split
MatchesExtWholeUrl(u, e) == EndsWith(Lower(u), e)

\* u.lower().split("?", 1)[0].endswith(ext)
MatchesExt(u, e) == EndsWith(BeforeQuery(Lower(u)), e)

\* the end of the match of [^\s"']+ that starts at position i
RECURSIVE RunEnd(_, _)
RunEnd(s, i) ==
    IF i < Len(s) /\ ~IsDelimiter(s[i + 1]) THEN RunEnd(s, i + 1) ELSE i

\* re.findall(r"https?://[^\s\"']+", s), scanning from position i
RECURSIVE FindAllFrom(_, _)
FindAllFrom(s, i) ==
    IF i > Len(s) THEN <<>>
    ELSE IF IsScheme(s[i]) /\ i < Len(s) /\ ~IsDelimiter(s[i + 1])
         THEN <<SubSeq(s, i, RunEnd(s, i))>> \o FindAllFrom(s, RunEnd(s, i) + 1)
         ELSE FindAllFrom(s, i + 1)

FindAll(s) == FindAllFrom(s, 1)

\* JSON-like values: a string, another scalar, a list, a dict (its values in
\* insertion order; collect never looks at the keys)
Str(s) == [t |-> "str", s |-> s, kids |-> <<>>]
Scalar == [t |-> "scalar", s |-> <<>>, kids |-> <<>>]
List(k) == [t |-> "list", s |-> <<>>, kids |-> k]
Dict(k) == [t |-> "dict", s |-> <<>>, kids |-> k]

\* collect(o): the URLs of o, in the order they are appended to `urls`
RECURSIVE Collect(_)
RECURSIVE CollectAll(_, _)
CollectAll(k, i) ==
    IF i > Len(k) THEN <<>> ELSE Collect(k[i]) \o CollectAll(k, i + 1)
Collect(o) ==
    IF o.t \in {"dict", "list"} THEN CollectAll(o.kids, 1)
    ELSE IF o.t = "str" THEN FindAll(o.s)
    ELSE <<>>

\* the no-artifact value (Python None; no URL is empty)
NoUrl == <<>>

\* the indices (ext, url) that satisfy the test of line 89
Hits(urls, exts) ==
    { p \in (1 .. Len(exts)) \X (1 .. Len(urls)) : MatchesExt(urls[p[2]], exts[p[1]]) }

\* the first hit of the loops of lines 87-88: extension order first
FirstHit(H) ==
    CHOOSE p \in H : \A q \in H : p[1] < q[1] \/ (p[1] = q[1] /\ p[2] <= q[2])

\* lines 86-91 without the fallback of line 91
SelectNoFallback(urls, exts) ==
    IF Hits(urls, exts) # {} THEN urls[FirstHit(Hits(urls, exts))[2]] ELSE NoUrl

\* lines 86-91
Select(urls, exts) ==
    IF Hits(urls, exts) # {} THEN urls[FirstHit(Hits(urls, exts))[2]]
    ELSE IF Len(urls) > 0 THEN urls[1]
    ELSE NoUrl

\* _first_url_from(obj, exts)
FirstUrlFrom(obj, exts) == Select(Collect(obj), exts)

----------------------------------------------------------------------------
\* wait_until_avatar_ready / wait_until_video_ready

\* terminal_ok of each poller
TerminalOk(k) ==
    IF k = "avatar" THEN {"ready", "trained", "succeeded", "completed"}
    ELSE {"ready", "success", "completed"}

\* terminal_bad of each poller
TerminalBad(k) == {"failed", "error"}

\* status = (item.get("data") or {}).get("current_status")
AvatarStatus(it) ==
    IF it.data = "obj" /\ it.status # Missing THEN it.status ELSE None

\* status = item.get("data")[0]['status']
VideoStatus(it) ==
    IF it.data = "obj" /\ it.status # Missing THEN it.status ELSE StatusError

StatusOf(k, it) == IF k = "avatar" THEN AvatarStatus(it) ELSE VideoStatus(it)

\* the deadline compared with >= (off by one)
DeadlinePassedAtLeast(el, tmo) == el >= tmo

\* time.time() - start > timeout_s
DeadlinePassed(el, tmo) == el > tmo

\* a status outside both sets raises the job-failed error
ClassifyUnknownFails(k, st, el, tmo) ==
    IF st = StatusError THEN "statuserror"
    ELSE IF st \in TerminalOk(k) THEN "returned"
    ELSE IF st \in TerminalBad(k) \/ st # "training" THEN "jobfailed"
    ELSE IF DeadlinePassed(el, tmo) THEN "timedout"
    ELSE "sleep"

\* the deadline checked before the status is classified
ClassifyDeadlineFirst(k, st, el, tmo) ==
    IF st = StatusError THEN "statuserror"
    ELSE IF DeadlinePassed(el, tmo) THEN "timedout"
    ELSE IF st \in TerminalOk(k) THEN "returned"
    ELSE IF st \in TerminalBad(k) THEN "jobfailed"
    ELSE "sleep"

\* the body of the loop after the fetch: where the poller goes next
Classify(k, st, el, tmo) ==
    IF st = StatusError THEN "statuserror"
    ELSE IF st \in TerminalOk(k) THEN "returned"
    ELSE IF st \in TerminalBad(k) THEN "jobfailed"
    ELSE IF DeadlinePassed(el, tmo) THEN "timedout"
    ELSE "sleep"

\* the exit hands over an empty payload instead of the response
CarriedNothing(it) == NoItem

\* what `return item` / the RuntimeError hand to the caller
Carried(it) == it

\* a sleep that returns at once
AfterSleepNoWait(el, p) == el

\* time.sleep(poll_s): the clock after the sleep
AfterSleep(el, p) == el + p

\* the error of a fetch caught and the fetch retried after a sleep
AfterFetchErrorRetry == "sleep"

\* lines 205, 294: the fetch is not inside a try, its error leaves the poller
AfterFetchError == "httperror"

PollExits == {"returned", "jobfailed", "timedout", "httperror", "statuserror"}

\* the call a fetch issues, with the identifier it passes
FetchCall(k, id) ==
    [ep |-> IF k = "avatar" THEN "avatar_status" ELSE "awsResult", id |-> id,
     arg |-> <<>>]

\* a count that stops at cap
UpTo(n, cap) == IF n < cap THEN n ELSE cap

\* the call log with one more call
Log(c, e) == IF Len(c) > 0 /\ c[Len(c)] = e THEN c ELSE Append(c, e)

\* One pass of `while True` up to the sleep: the fetch, the status, the
\* classification and the deadline check. The fetch takes d seconds of D and
\* answers with a body of I.
PollIter(D, I) ==
    /\ ppc = "iter"
    /\ \E d \in D :
        /\ elapsed' = elapsed + d
        /\ nfetch' = nfetch + 1
        /\ calls' = Log(calls, FetchCall(pk, pid))
        /\ \/ \* r.raise_for_status() or the request itself raises
              /\ ppc' = AfterFetchError
              /\ fetchErr' = TRUE
              /\ UNCHANGED <<item, status, result>>
           \/ \E it \in I :
                LET st == StatusOf(pk, it)
                    nx == Classify(pk, st, elapsed', timeout_s)
                IN  /\ item' = it
                    /\ status' = st
                    /\ UNCHANGED fetchErr
                    /\ ppc' = nx
                    /\ result' = IF nx \in {"returned", "jobfailed"}
                                 THEN Carried(it) ELSE result
    /\ badCodeAt' = IF badCodeAt = 0 /\ fetchErr' = fetchErr /\ item'.code # 0
                    THEN Len(calls') ELSE badCodeAt
    /\ pendingRun' = IF /\ fetchErr' = fetchErr
                        /\ status' \notin TerminalOk(pk) \cup TerminalBad(pk)
                                          \cup {StatusError}
                     THEN UpTo(pendingRun + 1, MaxCounted) ELSE pendingRun
    /\ UNCHANGED <<pk, pid, timeout_s, poll_s, nsleep, slept, pc, exitCode,
                   extVars, argVars, localVars, raisedAt, missingAt, readySeen,
                   sleepsRun>>

\* time.sleep(poll_s)
PollSleep ==
    /\ ppc = "sleep"
    /\ elapsed' = AfterSleep(elapsed, poll_s)
    /\ slept' = slept + (elapsed' - elapsed)
    /\ nsleep' = nsleep + 1
    /\ sleepsRun' = UpTo(sleepsRun + 1, MaxCounted)
    /\ ppc' = "iter"
    /\ UNCHANGED <<pk, pid, timeout_s, poll_s, item, status, result, nfetch,
                   fetchErr, pc, exitCode, calls, badCodeAt, extVars, argVars,
                   localVars,
                   raisedAt, missingAt, readySeen, pendingRun>>

\* a poller called on its own
PollIterAlone ==
    /\ pc = "standalone"
    /\ nfetch < MaxFetches
    /\ PollIter(0 .. MaxFetchDur, Items)

\* no call of _first_url_from is in progress
ExtIdle == xobj = Scalar /\ xexts = <<>> /\ xres = NoUrl /\ xpc = "idle"

\* a field that a response lacks (Python None)
Absent == "<absent>"

NoResp == [code |-> -1, id |-> Absent]

\* the prompt has not been answered
NoAnswer == <<"<no answer>">>

\* no awsResult response yet
NoResult == [status |-> "-", body |-> Scalar]

\* run_pipeline has not run
PipeIdle ==
    /\ exitCode = -1 /\ cmdline = "ok"
    /\ token = TRUE /\ auto_approve = FALSE /\ lip_sync = FALSE
    /\ image_url = <<>> /\ ans = NoAnswer /\ av_start = NoResp
    /\ avatar_id = Absent
    /\ audio_src = <<>> /\ anchor_id = Absent /\ vid = NoResp
    /\ task_id = Absent /\ video_url = NoUrl /\ vresult = NoResult
    /\ raisedAt = 0 /\ badCodeAt = 0 /\ missingAt = 0 /\ readySeen = FALSE
    /\ sleepsRun = 0 /\ pendingRun = 0

InitPoll ==
    /\ ExtIdle
    /\ PipeIdle
    /\ pk \in {"avatar", "video"}
    /\ pid \in Ids
    /\ timeout_s \in 0 .. MaxTimeout
    /\ poll_s \in 0 .. MaxPoll
    /\ ppc = "iter"
    /\ elapsed = 0
    /\ item = NoItem
    /\ status = None
    /\ result = NoItem
    /\ nfetch = 0
    /\ nsleep = 0
    /\ slept = 0
    /\ fetchErr = FALSE
    /\ pc = "standalone"
    /\ calls = <<>>

NextPoll == PollIterAlone \/ PollSleep

SpecPoll == InitPoll /\ [][NextPoll]_vars

\* the scheduler runs the single thread until the poller exits
SpecPollFair == SpecPoll /\ WF_vars(NextPoll)

----------------------------------------------------------------------------
\* _first_url_from called on its own

\* all sequences over S of length at most n
SeqsUpTo(S, n) == UNION { [1 .. k -> S] : k \in 0 .. n }

UrlA == <<"https://", "x/a", ".mp4">>
UrlAUpper == <<"https://", "x/a", ".MP4">>
UrlB == <<"https://", "x/b", ".jpg">>
UrlBQuery == <<"http://", "x/b", ".jpg", "?", "v", ".mp4">>
UrlC == <<"https://", "x/c", ".bin">>

\* string leaves: one URL, two URLs in one string, text without a URL, a
\* scheme followed by a blank
Leaves ==
    { Str(u) : u \in {UrlA, UrlAUpper, UrlB, UrlBQuery, UrlC} }
    \cup { Str(<<"see", " ">> \o UrlB \o <<"'", " ">> \o UrlA),
           Str(<<"see", "https://", " ", "x/a", ".mp4">>),
           Scalar }

\* payloads: a leaf, a list of leaves, a dict holding a leaf and a list
Payloads ==
    Leaves
    \cup { List(k) : k \in SeqsUpTo(Leaves, MaxKids) }
    \cup { Dict(<<a, List(k)>>) : a \in Leaves, k \in SeqsUpTo(Leaves, MaxKids - 1) }

\* extensions a caller may list
Exts == { <<".mp4">>, <<".MP4">>, <<".jpg">> }

ExtLists ==
    { l \in SeqsUpTo(Exts, MaxExts) : \A i, j \in 1 .. Len(l) : i # j => l[i] # l[j] }

\* no poller runs
PollIdle ==
    /\ pk = "none" /\ pid = "-" /\ timeout_s = 0 /\ poll_s = 0 /\ ppc = "idle"
    /\ elapsed = 0 /\ item = NoItem /\ status = None /\ result = NoItem
    /\ nfetch = 0 /\ nsleep = 0 /\ slept = 0 /\ fetchErr = FALSE

InitExt ==
    /\ PollIdle
    /\ PipeIdle
    /\ pc = "extractor"
    /\ calls = <<>>
    /\ xobj \in Payloads
    /\ xexts \in ExtLists
    /\ xres = NoUrl
    /\ xpc = "call"

\* the call returns
Extract ==
    /\ xpc = "call"
    /\ xres' = FirstUrlFrom(xobj, xexts)
    /\ xpc' = "done"
    /\ UNCHANGED <<xobj, xexts, pollVars, argVars, localVars, histVars, pc,
                   exitCode, calls, badCodeAt>>

NextExt == Extract

SpecExt == InitExt /\ [][NextExt]_vars

----------------------------------------------------------------------------
\* run_pipeline and __main__
\*
\* `calls` lists the calls to the A2E API; the download of the image from
\* the URL the API returned is not one of them.

\* envelope codes a response can carry
Codes == {0, 1}

\* values of an `_id` field
IdFields == {Absent, "", "id1", "id2"}

ImageOk == <<"https://", "x/img", ".jpg">>
ImageWithBlank == <<"https://", "x/my", " ", "img", ".jpg">>

\* values of data.image_urls (absent or empty: <<>>)
ImageUrlLists == { <<>>, <<ImageOk>>, <<ImageWithBlank>>, << <<>> >> }

\* what the operator types at the prompt
Answers == { <<"y">>, <<" ", "YES", " ">>, <<"Y">>, <<"n">>, <<>>, <<"y", " ", "n">> }

\* values of the data field of the send_tts response
AudioData == { <<>>, <<"https://", "x/s", ".mp3">> }

\* values of the msg field of the send_tts response
Messages == { <<"ok">>, <<"see", " ", "https://", "x/help">> }

\* bodies of the awsResult response
ResultPayloads ==
    { Dict(<<Scalar, Str(<<"ok">>)>>),
      Dict(<<Scalar, List(<<Str(UrlB), Str(UrlA)>>)>>),
      Dict(<<Scalar, List(<<Str(UrlB)>>)>>) }

\* exts of the call at line 407
AudioExts == << <<".mp3">>, <<".aac">>, <<".wav">>, <<".m4a">> >>

\* a list that prefers images
VideoExtsImageFirst == << <<".jpg">>, <<".mp4">>, <<".m3u8">>, <<".mov">>, <<".webm">> >>

\* exts of the call at line 440
VideoExts == << <<".mp4">>, <<".m3u8">>, <<".mov">>, <<".webm">> >>

\* `not v` that lets the empty string through
FalsyNoneOnly(v) == v = Absent

\* `not v` for an identifier
Falsy(v) == v \in {Absent, ""}

\* str.strip()
RECURSIVE Strip(_)
Strip(s) ==
    IF Len(s) > 0 /\ s[1] = " " THEN Strip(Tail(s))
    ELSE IF Len(s) > 0 /\ s[Len(s)] = " " THEN Strip(SubSeq(s, 1, Len(s) - 1))
    ELSE s

\* the answer is not looked at
ApprovedAlways(a) == TRUE

\* ans not in {"y", "yes"} after .strip().lower()
Approved(a) == Lower(Strip(a)) \in { <<"y">>, <<"yes">> }

\* requests accepts the URL: it has a scheme
HasScheme(u) == Len(u) > 1 /\ IsScheme(u[1])

\* the tts response as _first_url_from sees it
TtsTree(r) == Dict(<<Scalar, Str(r.data), Str(r.msg)>>)

\* line 407
AudioSrc(r) == IF r.data # <<>> THEN r.data ELSE FirstUrlFrom(TtsTree(r), AudioExts)

\* an API call and what it passes
Call(ep, id, arg) == [ep |-> ep, id |-> id, arg |-> arg]

\* continue_training called with another avatar's identifier
ContinueCallOther(id) == Call("continueTranining", "id1", <<>>)

\* client.continue_training(avatar_id)
ContinueCall(id) == Call("continueTranining", id, <<>>)

\* every error of a poll loop is only logged
AfterPollLenient(at, exit, lip) ==
    IF at = "poll1" /\ lip THEN "continue" ELSE "tts"

\* where run_pipeline goes when a poll loop ends: lines 387-388 let the
\* error out, lines 396-401 catch Exception and go on
AfterPoll(at, exit, lip) ==
    IF at = "poll1"
    THEN IF exit # "returned" THEN "exit" ELSE IF lip THEN "continue" ELSE "tts"
    ELSE "tts"

\* the poller's frame is gone
PollReset ==
    /\ pk' = "none" /\ pid' = "-" /\ timeout_s' = 0 /\ poll_s' = 0 /\ ppc' = "idle"
    /\ elapsed' = 0 /\ item' = NoItem /\ status' = None /\ result' = NoItem
    /\ nfetch' = 0 /\ nsleep' = 0 /\ slept' = 0 /\ fetchErr' = FALSE

\* client.wait_until_avatar_ready(avatar_id) is entered
PollCall(id) ==
    /\ pk' = "avatar" /\ pid' = id
    /\ timeout_s' = DefaultTimeoutS /\ poll_s' = DefaultPollS
    /\ ppc' = "iter" /\ elapsed' = 0 /\ item' = NoItem /\ status' = None
    /\ result' = NoItem /\ nfetch' = 0 /\ nsleep' = 0 /\ slept' = 0
    /\ fetchErr' = FALSE

\* an exception leaves run_pipeline: sys.exit(1)
Fatal == pc' = "exit" /\ exitCode' = 1

\* the history of a step: r, m say whether it raised, lacked a field; c is the
\* code of its response
Note(r, m, c) ==
    /\ raisedAt' = IF raisedAt = 0 /\ r THEN Len(calls') ELSE raisedAt
    /\ missingAt' = IF missingAt = 0 /\ m THEN Len(calls') ELSE missingAt
    /\ badCodeAt' = IF badCodeAt = 0 /\ c # 0 THEN Len(calls') ELSE badCodeAt
    /\ UNCHANGED <<readySeen, sleepsRun, pendingRun>>

\* command lines: accepted, --help, rejected (a required flag is missing,
\* --gender is neither male nor female, --width is not an integer)
CmdLines == {"ok", "help", "bad"}

\* line 465: parse_args; argparse leaves with SystemExit, 0 after --help and
\* 2 after a usage error, which neither except clause of __main__ catches
ParseArgs ==
    /\ pc = "parse"
    /\ IF cmdline = "ok" THEN pc' = "start" /\ UNCHANGED exitCode
       ELSE pc' = "exit" /\ exitCode' = (IF cmdline = "help" THEN 0 ELSE 2)
    /\ UNCHANGED <<calls, badCodeAt, pollVars, extVars, argVars, localVars, histVars>>

\* lines 341-346: the token is read from the environment
Startup ==
    /\ pc = "start"
    /\ IF token THEN pc' = "t2i" /\ UNCHANGED exitCode ELSE Fatal
    /\ UNCHANGED <<calls, badCodeAt, pollVars, extVars, argVars, localVars, histVars>>

\* lines 348-357: text2image and the image URL
Text2Image ==
    /\ pc = "t2i"
    /\ calls' = Log(calls, Call("text2image", "-", <<>>))
    /\ \/ /\ Fatal
          /\ Note(TRUE, FALSE, 0)
          /\ UNCHANGED image_url
       \/ \E c \in Codes, urls \in ImageUrlLists :
            /\ IF urls = <<>>
               THEN Fatal /\ UNCHANGED image_url
               ELSE pc' = "download" /\ image_url' = urls[1] /\ UNCHANGED exitCode
            /\ Note(FALSE, urls = <<>>, c)
    /\ UNCHANGED <<av_start, avatar_id, audio_src, anchor_id, vid, task_id,
                   video_url, vresult, ans, pollVars, extVars, argVars>>

\* lines 359-364: the image is saved locally
Download ==
    /\ pc = "download"
    /\ \/ /\ HasScheme(image_url)
          /\ pc' = "approval"
          /\ UNCHANGED <<exitCode, raisedAt>>
       \/ /\ Fatal
          /\ raisedAt' = IF raisedAt = 0 THEN Len(calls) ELSE raisedAt
    /\ UNCHANGED <<calls, badCodeAt, missingAt, readySeen, sleepsRun,
                   pendingRun, pollVars, extVars, argVars, localVars>>

\* lines 366-371: the approval prompt
Approval ==
    /\ pc = "approval"
    /\ \/ /\ auto_approve
          /\ pc' = "train"
          /\ UNCHANGED <<exitCode, ans>>
       \/ /\ ~auto_approve
          /\ \E a \in Answers :
                /\ ans' = a
                /\ IF Approved(a)
                   THEN pc' = "train" /\ UNCHANGED exitCode
                   ELSE pc' = "exit" /\ exitCode' = 0
       \/ \* input() raises EOFError
          /\ ~auto_approve
          /\ Fatal
          /\ UNCHANGED ans
    /\ UNCHANGED <<image_url, av_start, avatar_id, audio_src, anchor_id, vid,
                   task_id, video_url, vresult>>
    /\ UNCHANGED <<calls, badCodeAt, pollVars, extVars, argVars, histVars>>

\* lines 373-387 with start_avatar_training_from_image (lines 148-185)
StartTraining ==
    /\ pc = "train"
    /\ \/ \* ValueError before the request
          /\ \E i \in 1 .. Len(image_url) : image_url[i] = " "
          /\ Fatal
          /\ UNCHANGED <<calls, badCodeAt, histVars, av_start, avatar_id, pollVars>>
       \/ /\ \A i \in 1 .. Len(image_url) : image_url[i] # " "
          /\ calls' = Log(calls, Call("startTraining", "-", image_url))
          /\ \/ /\ Fatal
                /\ Note(TRUE, FALSE, 0)
                /\ UNCHANGED <<av_start, avatar_id, pollVars>>
             \/ \E c \in Codes, id \in IdFields :
                  IF c # 0
                  THEN /\ Fatal
                       /\ Note(TRUE, FALSE, c)
                       /\ UNCHANGED <<av_start, avatar_id, pollVars>>
                  ELSE IF Falsy(id)
                  THEN /\ Fatal
                       /\ Note(FALSE, TRUE, c)
                       /\ UNCHANGED <<av_start, avatar_id, pollVars>>
                  ELSE /\ av_start' = [code |-> c, id |-> id]
                       /\ avatar_id' = id
                       /\ pc' = "poll1"
                       /\ PollCall(id)
                       /\ Note(FALSE, FALSE, c)
                       /\ UNCHANGED exitCode
    /\ UNCHANGED <<image_url, audio_src, anchor_id, vid, task_id, video_url,
                   vresult, ans, extVars, argVars>>

\* bodies of the avatar status response inside run_pipeline
AvatarItems ==
    { it \in Items : it.data = "absent" \/
        (it.data = "obj" /\ it.status \in {"ready", "trained", "error", "training"}) }

\* one pass of the poll loop inside run_pipeline
PollIterPipeline ==
    /\ pc \in {"poll1", "poll2"}
    /\ PollIter({0, MaxStall}, AvatarItems)

\* the poller returns or raises into run_pipeline: lines 387-388, 396-401
PollDone ==
    /\ pc \in {"poll1", "poll2"}
    /\ ppc \in PollExits
    /\ LET nx == AfterPoll(pc, ppc, lip_sync)
       IN  /\ pc' = nx
           /\ exitCode' = IF nx = "exit" THEN 1 ELSE exitCode
    /\ raisedAt' = IF raisedAt = 0 /\ ppc # "returned" THEN Len(calls) ELSE raisedAt
    /\ readySeen' = (readySeen \/ (ppc = "returned" /\ result.status \in
                        {"ready", "trained", "succeeded", "completed"}))
    /\ PollReset
    /\ UNCHANGED <<calls, badCodeAt, missingAt, sleepsRun, pendingRun, extVars,
                   argVars, localVars>>

\* lines 391-398: continueTranining, its response only printed
ContinueTraining ==
    /\ pc = "continue"
    /\ calls' = Log(calls, ContinueCall(avatar_id))
    /\ \/ /\ Fatal
          /\ Note(TRUE, FALSE, 0)
          /\ UNCHANGED pollVars
       \/ \E c \in Codes :
            /\ pc' = "poll2"
            /\ PollCall(avatar_id)
            /\ Note(FALSE, FALSE, c)
            /\ UNCHANGED exitCode
    /\ UNCHANGED <<extVars, argVars, localVars>>

\* lines 403-410: send_tts and the audio source
GenerateTts ==
    /\ pc = "tts"
    /\ calls' = Log(calls, Call("send_tts", "-", <<>>))
    /\ \/ /\ Fatal
          /\ Note(TRUE, FALSE, 0)
          /\ UNCHANGED audio_src
       \/ \E c \in Codes, d \in AudioData, m \in Messages :
            LET r == [code |-> c, data |-> d, msg |-> m]
            IN  /\ IF AudioSrc(r) = <<>>
                   THEN Fatal /\ UNCHANGED audio_src
                   ELSE pc' = "anchors" /\ audio_src' = AudioSrc(r)
                        /\ UNCHANGED exitCode
                /\ Note(FALSE, d = <<>> /\ Collect(TtsTree(r)) = <<>>, c)
    /\ UNCHANGED <<image_url, av_start, avatar_id, anchor_id, vid, task_id,
                   video_url, vresult, ans, pollVars, extVars, argVars>>

\* lines 412-423: character_list and the anchor
ListAnchors ==
    /\ pc = "anchors"
    /\ calls' = Log(calls, Call("character_list", avatar_id, <<>>))
    /\ \/ /\ Fatal
          /\ Note(TRUE, FALSE, 0)
          /\ UNCHANGED anchor_id
       \/ \E c \in Codes, items \in {<<>>} \cup { <<id>> : id \in IdFields } :
            /\ IF items = <<>> \/ Falsy(items[1])
               THEN Fatal /\ UNCHANGED anchor_id
               ELSE pc' = "video" /\ anchor_id' = items[1] /\ UNCHANGED exitCode
            /\ Note(FALSE, items = <<>> \/ items[1] \in {Absent, ""}, c)
    /\ UNCHANGED <<image_url, av_start, avatar_id, audio_src, vid, task_id,
                   video_url, vresult, ans, pollVars, extVars, argVars>>

\* lines 425-434: video generate and the task id
CreateVideo ==
    /\ pc = "video"
    /\ calls' = Log(calls, Call("generate", anchor_id, audio_src))
    /\ \/ /\ Fatal
          /\ Note(TRUE, FALSE, 0)
          /\ UNCHANGED <<vid, task_id>>
       \/ \E c \in Codes, id \in IdFields :
            IF c # 0
            THEN /\ Fatal
                 /\ Note(TRUE, FALSE, c)
                 /\ UNCHANGED <<vid, task_id>>
            ELSE IF Falsy(id)
            THEN /\ Fatal
                 /\ Note(FALSE, TRUE, c)
                 /\ UNCHANGED <<vid, task_id>>
            ELSE /\ vid' = [code |-> c, id |-> id]
                 /\ task_id' = id
                 /\ pc' = "result"
                 /\ Note(FALSE, FALSE, c)
                 /\ UNCHANGED exitCode
    /\ UNCHANGED <<image_url, av_start, avatar_id, audio_src, anchor_id,
                   video_url, vresult, ans, pollVars, extVars, argVars>>

\* statuses the awsResult response can report (Missing: none)
ResultStatuses == {"success", "failed", "training", Missing}

\* the awsResult response as _first_url_from sees it
ResultTree(r) ==
    Dict(<<IF r.status = Missing THEN Scalar ELSE Str(<<r.status>>), r.body>>)

\* a run that fails when no video URL is found
ResultExitStrict(url) == IF url = NoUrl THEN 1 ELSE 0

\* lines 441-444: the URL or the notice is printed and run_pipeline returns
ResultExit(url) == 0

\* lines 436-444: the result is fetched once and searched for a URL
VideoResult ==
    /\ pc = "result"
    /\ calls' = Append(calls, Call("awsResult", task_id, <<>>))
    /\ \/ /\ Fatal
          /\ Note(TRUE, FALSE, 0)
          /\ UNCHANGED <<video_url, vresult>>
       \/ \E c \in Codes, st \in ResultStatuses, body \in ResultPayloads :
            /\ vresult' = [status |-> st, body |-> body]
            /\ video_url' = FirstUrlFrom(ResultTree(vresult'), VideoExts)
            /\ pc' = "exit"
            /\ exitCode' = ResultExit(video_url')
            /\ Note(FALSE, FALSE, c)
    /\ UNCHANGED <<image_url, av_start, avatar_id, audio_src, anchor_id, vid,
                   task_id, ans, pollVars, extVars, argVars>>

\* KeyboardInterrupt swallowed by the handler of the post-continuation wait
InterruptOutsideWait ==
    /\ pc \notin {"exit", "standalone", "extractor", "poll2"}
    /\ pc' = "exit"
    /\ exitCode' = 130
    /\ PollReset
    /\ UNCHANGED <<calls, badCodeAt, extVars, argVars, localVars, histVars>>

\* lines 483-485: KeyboardInterrupt anywhere in the run
Interrupt ==
    /\ pc \notin {"exit", "standalone", "extractor"}
    /\ pc' = "exit"
    /\ exitCode' = 130
    /\ PollReset
    /\ UNCHANGED <<calls, badCodeAt, extVars, argVars, localVars, histVars>>

Init ==
    /\ PollIdle
    /\ ExtIdle
    /\ pc = "parse"
    /\ exitCode = -1
    /\ cmdline \in CmdLines
    /\ token \in BOOLEAN
    /\ auto_approve \in BOOLEAN
    /\ lip_sync \in BOOLEAN
    /\ image_url = <<>> /\ ans = NoAnswer /\ av_start = NoResp
    /\ avatar_id = Absent
    /\ audio_src = <<>> /\ anchor_id = Absent /\ vid = NoResp
    /\ task_id = Absent /\ video_url = NoUrl /\ vresult = NoResult
    /\ calls = <<>>
    /\ raisedAt = 0 /\ badCodeAt = 0 /\ missingAt = 0 /\ readySeen = FALSE
    /\ sleepsRun = 0 /\ pendingRun = 0

Next ==
    \/ ParseArgs \/ Startup \/ Text2Image \/ Download \/ Approval \/ StartTraining
    \/ PollIterPipeline \/ PollSleep \/ PollDone \/ ContinueTraining
    \/ GenerateTts \/ ListAnchors \/ CreateVideo \/ VideoResult \/ Interrupt

Spec == Init /\ [][Next]_vars

----------------------------------------------------------------------------
\* Properties of the pollers (SpecPoll, SpecPollFair)

Running == {"iter", "sleep"}

\* a status in neither terminal_ok nor terminal_bad
Pending(k, st) == st # StatusError /\ st \notin TerminalOk(k) \cup TerminalBad(k)

\* the last fetch delivered a response (it did not raise)
Fetched == nfetch > 0 /\ ppc # "httperror"

\* C1: in both pollers a fetch that reports a status of the success set is
\* the last thing the poller does: it returns that fetch's raw response, and
\* no sleep and no fetch follows (the poller is no longer running and nothing
\* is enabled).
C1_SuccessReturnsFirstFetch ==
    (Fetched /\ status \in TerminalOk(pk)) =>
        /\ ppc = "returned"
        /\ result = item
        /\ item \in Items
        /\ nsleep = nfetch - 1
        /\ ~ENABLED NextPoll

C1_Witness ==
    /\ pk = "video" /\ ppc = "returned" /\ status = "success"
    /\ nfetch = 3 /\ elapsed > timeout_s

\* C2: in both pollers a fetch that reports "failed" or "error" ends the
\* poller with the job-failed error carrying that fetch's raw response; no
\* sleep and no fetch follows it.
C2_FailureRaisesFirstFetch ==
    (Fetched /\ status \in {"failed", "error"}) =>
        /\ ppc = "jobfailed"
        /\ result = item
        /\ item \in Items
        /\ nsleep = nfetch - 1
        /\ ~ENABLED NextPoll

C2_Witness ==
    /\ pk = "avatar" /\ ppc = "jobfailed" /\ status = "error"
    /\ nfetch = 2 /\ result.code = 1

C4_DeadlineThenFixedSleep ==
    /\ [](/\ (Fetched /\ Pending(pk, status) /\ nsleep = nfetch - 1) =>
                /\ ppc \in {"timedout", "sleep"}
                /\ ppc = "timedout" <=> elapsed > timeout_s
          /\ ppc = "timedout" => Pending(pk, status)
          /\ ppc = "sleep" => (elapsed <= timeout_s /\ Pending(pk, status))
          /\ slept = nsleep * poll_s
          /\ ppc = "iter" => nsleep = nfetch)
    /\ [][ppc = "sleep" =>
            /\ ppc' = "iter"
            /\ elapsed' = elapsed + poll_s
            /\ poll_s' = poll_s
            /\ nsleep' = nsleep + 1]_vars

C4_Witness ==
    /\ ppc = "sleep" /\ elapsed = timeout_s /\ nsleep = 1 /\ poll_s = 2
    /\ timeout_s = 3

----------------------------------------------------------------------------
\* Properties of run_pipeline (Spec)

\* the endpoints called so far, in order
Endpoints == [i \in 1 .. Len(calls) |-> calls[i].ep]

IsPrefix(a, b) == Len(a) <= Len(b) /\ a = SubSeq(b, 1, Len(a))

\* the order of the steps of a run
StepOrder(lip) ==
    <<"text2image", "startTraining", "avatar_status">>
    \o (IF lip THEN <<"continueTranining", "avatar_status">> ELSE <<>>)
    \o <<"send_tts", "character_list", "generate", "awsResult">>

\* C5: once a remote call or a poll loop has raised (job-failed, timed out,
\* HTTP/network or API error), the run is over with exit code 1 and no call
\* has been issued since.
C5_EveryErrorFatal ==
    raisedAt > 0 => (pc = "exit" /\ exitCode = 1 /\ Len(calls) = raisedAt)

\* C6: once a response of any step has carried an envelope code other than
\* 0, that step is the last one to call the API: no call of a later step is
\* issued.
C6_NonZeroCodeFatal == badCodeAt > 0 => Len(calls) = badCodeAt

\* C7: every call carries non-empty artifacts (startTraining an image URL;
\* avatar status, continueTranining and character_list an avatar id; video
\* generate an audio source and an anchor id; awsResult a task id), and once
\* a response has lacked its expected field the run is over with exit code 1
\* and no call has been issued since.
C7_ArtifactsNonEmpty ==
    /\ \A i \in 1 .. Len(calls) :
        /\ calls[i].ep = "startTraining" => calls[i].arg # <<>>
        /\ calls[i].ep \in {"avatar_status", "continueTranining", "character_list"}
              => calls[i].id \notin {Absent, "", "-"}
        /\ calls[i].ep = "generate"
              => (calls[i].arg # <<>> /\ calls[i].id \notin {Absent, "", "-"})
        /\ calls[i].ep = "awsResult" => calls[i].id \notin {Absent, "", "-"}
    /\ missingAt > 0 => (pc = "exit" /\ exitCode = 1 /\ Len(calls) = missingAt)

C7_Witness ==
    /\ pc = "exit" /\ exitCode = 1 /\ missingAt = Len(calls)
    /\ Len(calls) = 7 /\ calls[7].ep = "character_list" /\ raisedAt > 0

\* C8: the endpoints called form a prefix of the fixed order of the steps
\* (continueTranining and its poll loop only with lip_sync, once); a poll
\* loop is in progress only in the two polling steps and every other call is
\* issued with no poll loop in progress; and send_tts is issued only after a
\* poll loop of the run has returned on a success status.
C8_StepsInOrder ==
    /\ [](/\ IsPrefix(Endpoints, StepOrder(lip_sync))
          /\ ppc # "idle" => pc \in {"poll1", "poll2"}
          /\ (\E i \in 1 .. Len(calls) : calls[i].ep = "send_tts") => readySeen)
    /\ [][(calls' # calls /\ calls'[Len(calls')].ep # "avatar_status")
            => (ppc = "idle" /\ Len(calls') = Len(calls) + 1)]_vars

C8_Witness ==
    /\ pc = "exit" /\ exitCode = 0 /\ lip_sync /\ Len(calls) = 9 /\ raisedAt = 5

\* C9: every avatar status fetch, continueTranining and character_list
\* carries the avatar id that startTraining returned, awsResult carries the
\* task id that video generate returned, the two ids never change once set,
\* and a running poll loop keeps the identifier it was given.
C9_IdentifiersStable ==
    /\ [](/\ \A i \in 1 .. Len(calls) :
              /\ calls[i].ep \in {"avatar_status", "continueTranining",
                                  "character_list"}
                    => (calls[i].id = av_start.id /\ calls[i].id = avatar_id)
              /\ calls[i].ep = "awsResult"
                    => (calls[i].id = vid.id /\ calls[i].id = task_id)
          /\ pk = "avatar" => pid = av_start.id)
    /\ [][/\ avatar_id # Absent => avatar_id' = avatar_id
          /\ task_id # Absent => task_id' = task_id
          /\ (ppc \in Running /\ ppc' # "idle") => pid' = pid]_vars

C9_Witness ==
    /\ pc = "exit" /\ exitCode = 0 /\ Len(calls) = 9
    /\ avatar_id = "id2" /\ task_id = "id1" /\ calls[5].id = "id2"

----------------------------------------------------------------------------
\* Properties of _first_url_from (SpecExt)

\* u's path ends with extension e, compared without regard to case
EndsWithNoCase(u, e) == EndsWith(BeforeQuery(Lower(u)), Lower(e))

\* the URLs of the payload in discovery order
Found == Collect(xobj)

\* C10: when some discovered URL's path ends, case-insensitively, with some
\* listed extension, the result is the URL chosen by walking the extension
\* list in order and, for each extension, the URLs in discovery order: the
\* first URL of the earliest extension that any URL ends with.
C10_FirstByExtensionOrder ==
    (xpc = "done" /\ \E i \in 1 .. Len(xexts), j \in 1 .. Len(Found) :
                        EndsWithNoCase(Found[j], xexts[i])) =>
        \E i \in 1 .. Len(xexts), j \in 1 .. Len(Found) :
            /\ xres = Found[j]
            /\ EndsWithNoCase(Found[j], xexts[i])
            /\ \A i2 \in 1 .. i - 1, j2 \in 1 .. Len(Found) :
                    ~EndsWithNoCase(Found[j2], xexts[i2])
            /\ \A j2 \in 1 .. j - 1 : ~EndsWithNoCase(Found[j2], xexts[i])

\* position i of string s starts a URL-shaped substring
UrlAt(s, i) == IsScheme(s[i]) /\ i < Len(s) /\ ~IsDelimiter(s[i + 1])

\* some string leaf of o holds a URL-shaped substring
RECURSIVE HasUrl(_)
HasUrl(o) ==
    IF o.t = "str" THEN \E i \in 1 .. Len(o.s) : UrlAt(o.s, i)
    ELSE \E i \in 1 .. Len(o.kids) : HasUrl(o.kids[i])

\* the URL met first when o is walked depth-first, values and elements in
\* the order presented
RECURSIVE FirstDepthFirst(_)
FirstDepthFirst(o) ==
    IF ~HasUrl(o) THEN NoUrl
    ELSE IF o.t = "str"
    THEN LET i == CHOOSE i \in 1 .. Len(o.s) :
                    UrlAt(o.s, i) /\ \A j \in 1 .. i - 1 : ~UrlAt(o.s, j)
         IN  SubSeq(o.s, i, RunEnd(o.s, i))
    ELSE LET i == CHOOSE i \in 1 .. Len(o.kids) :
                    HasUrl(o.kids[i]) /\ \A j \in 1 .. i - 1 : ~HasUrl(o.kids[j])
         IN  FirstDepthFirst(o.kids[i])

\* no discovered URL ends, case-insensitively, with a listed extension
NoneListed ==
    \A i \in 1 .. Len(xexts), j \in 1 .. Len(Found) :
        ~EndsWithNoCase(Found[j], xexts[i])

\* C11: when no discovered URL ends with a listed extension the result is
\* the first URL of the depth-first walk, whatever the preference list is;
\* when no string leaf holds a URL-shaped substring the result is the
\* no-artifact value; and the only step of a call is its return (there is no
\* raising exit).
C11_FallbackFirstDiscovered ==
    /\ [](xpc = "done" =>
            /\ (HasUrl(xobj) /\ NoneListed) =>
                  (xres = FirstDepthFirst(xobj) /\ xres = Found[1] /\ xres # NoUrl)
            /\ ~HasUrl(xobj) => (xres = NoUrl /\ Found = <<>>))
    /\ [][xpc = "call" /\ xpc' = "done"]_vars

C11_Witness ==
    /\ xpc = "done"
    /\ xobj = Dict(<<Str(UrlB), List(<<Str(UrlC)>>)>>)
    /\ xexts = << <<".mp4">>, <<".MP4">> >>
    /\ xres = UrlB

----------------------------------------------------------------------------
\* Properties of run_pipeline and __main__ (Spec), continued

\* the calls to endpoint ep so far
CallsTo(ep) == { i \in 1 .. Len(calls) : calls[i].ep = ep }

\* the URLs of sequence q as a set
UrlSet(q) == { q[i] : i \in 1 .. Len(q) }

\* C12: the run never enters the video poller and has no poll loop in
\* progress once the video task exists; awsResult is called at most once and
\* is the last call of the run; whatever status its response reports, the
\* run ends with exit code 0 and the video URL is a URL of that response,
\* absent exactly when the response holds none; the step after video
\* generate started always ends the run, without a sleep.
C12_ResultFetchedOnce ==
    /\ [](/\ pk # "video"
          /\ task_id # Absent => ppc = "idle"
          /\ Cardinality(CallsTo("awsResult")) <= 1
          /\ CallsTo("awsResult") # {} =>
                (pc = "exit" /\ calls[Len(calls)].ep = "awsResult")
          /\ vresult # NoResult =>
                /\ pc = "exit" /\ exitCode = 0
                /\ Cardinality(CallsTo("awsResult")) = 1
                /\ video_url = NoUrl <=> ~HasUrl(vresult.body)
                /\ video_url # NoUrl => video_url \in UrlSet(Collect(vresult.body)))
    /\ [][pc = "result" =>
            /\ pc' = "exit"
            /\ nsleep' = nsleep /\ nfetch' = nfetch
            /\ exitCode' = 0 <=> vresult' # NoResult]_vars

C12_Witness ==
    /\ pc = "exit" /\ exitCode = 0 /\ vresult.status = "failed"
    /\ video_url = NoUrl /\ Len(calls) = 7 /\ calls[7].ep = "awsResult"

\* url is the choice among urls that list exts prefers: the first URL
\* ending with the earliest extension that any URL ends with
PreferredBy(url, urls, exts) ==
    \E i \in 1 .. Len(exts), j \in 1 .. Len(urls) :
        /\ url = urls[j]
        /\ EndsWithNoCase(urls[j], exts[i])
        /\ \A i2 \in 1 .. i - 1, j2 \in 1 .. Len(urls) :
                ~EndsWithNoCase(urls[j2], exts[i2])
        /\ \A j2 \in 1 .. j - 1 : ~EndsWithNoCase(urls[j2], exts[i])

\* the steps that call the API or wait for the avatar
RemoteSteps ==
    {"t2i", "download", "poll1", "continue", "poll2", "tts", "anchors", "video",
     "result"}

\* nothing has gone wrong so far: no call or poll loop raised, every response
\* had code 0 and its expected field
CleanRun == raisedAt = 0 /\ badCodeAt = 0 /\ missingAt = 0

C14_Original == exitCode \in {-1, 0, 1, 130}

\* C14 amended: a rejected command line ends the process with 2 and --help
\* with 0, both before the pipeline starts. Otherwise the exit code is 0
\* exactly when run_pipeline returns (the operator declined, or the result
\* was fetched), 1 when an error ended the run, and 130 for an interrupt,
\* which can end the run at every point, a poll loop's sleep and the
\* post-continuation wait included; no other exit code is produced.
C14_ExitCodes ==
    /\ [](/\ exitCode \in {-1, 0, 1, 2, 130}
          /\ pc = "exit" <=> exitCode # -1
          /\ pc # "exit" => ENABLED Interrupt
          /\ exitCode = 2 => cmdline = "bad"
          /\ (exitCode \in {0, 1} /\ cmdline # "ok") => (cmdline = "help" /\ exitCode = 0)
          /\ (pc = "exit" /\ vresult # NoResult) => exitCode = 0
          /\ (pc = "exit" /\ (raisedAt = Len(calls) \/ missingAt > 0) /\ calls # <<>>
                /\ vresult = NoResult) => exitCode \in {1, 130})
    /\ [][(pc # "exit" /\ pc' = "exit") =>
            /\ exitCode' = 0 =>
                \/ pc = "parse" /\ cmdline = "help"
                \/ pc = "approval" /\ ~auto_approve
                \/ pc = "result" /\ vresult' # NoResult
            /\ (raisedAt' # raisedAt \/ missingAt' # missingAt) => exitCode' = 1
            /\ (pc \in {"poll1", "poll2"} /\ ppc \in Running) => exitCode' = 130]_vars

C14_Witness ==
    /\ pc = "exit" /\ exitCode = 130 /\ lip_sync
    /\ Len(calls) = 5 /\ calls[5].ep = "avatar_status" /\ sleepsRun = 2

\* answers that are y or yes once trimmed and lower-cased
YesAnswers == { <<"y">>, <<"Y">>, <<" ", "YES", " ">> }

\* C17: with auto_approve the operator is never asked and the approval step
\* leads to startTraining; without it, an answer other than y or yes
\* (trimmed, lower-cased) ends the run at once with exit code 0 after the
\* text2image call alone, with no avatar and no video task; a y or yes lets
\* the run go on; and startTraining is only ever called with auto_approve or
\* after such an answer.
C17_ApprovalGate ==
    /\ [](/\ auto_approve => ans = NoAnswer
          /\ (ans # NoAnswer /\ ans \notin YesAnswers) =>
                /\ pc = "exit" /\ exitCode = 0
                /\ Endpoints = <<"text2image">>
                /\ avatar_id = Absent /\ task_id = Absent /\ ppc = "idle"
          /\ CallsTo("startTraining") # {} => (auto_approve \/ ans \in YesAnswers)
          /\ pc = "approval" => (ans = NoAnswer /\ ENABLED Approval))
    /\ [][pc = "approval" =>
            /\ (auto_approve /\ exitCode' # 130) => (pc' = "train" /\ ans' = NoAnswer)
            /\ ans' \in YesAnswers => (pc' = "train" /\ exitCode' = -1)
            /\ pc' = "train" => (auto_approve \/ ans' \in YesAnswers)
            /\ calls' = calls]_vars

C17_Witness ==
    /\ ~auto_approve /\ ans = <<"y", " ", "n">> /\ pc = "exit" /\ exitCode = 0
    /\ Len(calls) = 1 /\ lip_sync

----------------------------------------------------------------------------
\* Properties of the pollers (SpecPoll), continued

\* the last pass of the loop classified a status that the fetch delivered
Classified == nfetch > 0 /\ ~fetchErr /\ status # StatusError /\ nsleep = nfetch - 1

\* C15 as stated: the sets are disjoint and every delivered status outside
\* both sets makes the poller keep polling (it is about to sleep or to fetch).
C15_Original ==
    /\ \A k \in {"avatar", "video"} : TerminalOk(k) \cap TerminalBad(k) = {}
    /\ (Classified /\ Pending(pk, status)) => ppc \in Running

\* C15 amended: for both job types the success set and the failure set are the
\* stated ones and are disjoint; a delivered status is handled as exactly one
\* of success (the poller returns), failure (it raises job-failed) or pending;
\* a pending status never makes the poller return or raise job-failed: it
\* goes on to the sleep and the next fetch, unless the deadline has passed.
C15_ThreeBuckets ==
    /\ TerminalOk("avatar") = {"ready", "trained", "succeeded", "completed"}
    /\ TerminalOk("video") = {"ready", "success", "completed"}
    /\ \A k \in {"avatar", "video"} :
          TerminalBad(k) = {"failed", "error"} /\ TerminalOk(k) \cap TerminalBad(k) = {}
    /\ Classified =>
        /\ ppc = "returned" <=> status \in TerminalOk(pk)
        /\ ppc = "jobfailed" <=> status \in TerminalBad(pk)
        /\ ppc \in {"sleep", "timedout"} <=> Pending(pk, status)
        /\ (Pending(pk, status) /\ elapsed <= timeout_s) =>
                (ppc = "sleep" /\ ENABLED PollSleep)
    /\ (ppc = "iter" /\ nfetch > 0) =>
            (Pending(pk, status) /\ (nfetch < MaxFetches => ENABLED PollIterAlone))

C15_Witness ==
    /\ pk = "video" /\ status = "trained" /\ ppc = "iter" /\ nfetch = 2
    /\ item.code = 1

\* C16: once a status fetch has raised, the poller is at its error exit:
\* nothing was returned, the failed fetch was followed by no sleep, and no
\* fetch and no sleep can follow.
C16_FetchErrorPropagates ==
    fetchErr =>
        /\ ppc = "httperror"
        /\ result = NoItem
        /\ nsleep = nfetch - 1
        /\ ~ENABLED NextPoll

C16_Witness ==
    /\ fetchErr /\ ppc = "httperror" /\ nfetch = 3 /\ nsleep = 2
    /\ status = "training" /\ pk = "avatar"

\* the other poller
Other(k) == IF k = "avatar" THEN "video" ELSE "avatar"

\* the bucket of response it in poller k's vocabulary; "nostatus": the
\* response has no data, empty data, or data without the status key
Bucket(k, it) ==
    IF it.data # "obj" \/ it.status = Missing THEN "nostatus"
    ELSE IF it.status \in TerminalOk(k) THEN "success"
    ELSE IF it.status \in TerminalBad(k) THEN "failure"
    ELSE "pending"

\* C18: whenever a poller has fetched a response and acted on it, the other
\* poller, given at the same clock reading and deadline any response of the
\* same bucket in its own vocabulary (success, failure, pending, or no
\* status), takes the same step: the same exit, or the sleep.
C18_SameStateMachine ==
    (nfetch > 0 /\ ~fetchErr /\ nsleep = nfetch - 1) =>
        \A it2 \in Items :
            Bucket(Other(pk), it2) = Bucket(pk, item) =>
                Classify(Other(pk), StatusOf(Other(pk), it2), elapsed, timeout_s) = ppc

\* C19: the status is classified before the deadline is looked at: with
\* the deadline already passed a success status still makes the poller return
\* that response and a failure status still makes it raise job-failed with
\* that response; the timed-out exit is only taken directly after a pending
\* status, with the deadline passed.
C19_ClassifiedBeforeDeadline ==
    /\ (Classified /\ elapsed > timeout_s) =>
        /\ status \in TerminalOk(pk) => (ppc = "returned" /\ result = item)
        /\ status \in TerminalBad(pk) => (ppc = "jobfailed" /\ result = item)
        /\ ppc = "timedout" <=> Pending(pk, status)
    /\ ppc = "timedout" =>
        /\ Classified /\ elapsed > timeout_s
        /\ status \notin TerminalOk(pk) \cup TerminalBad(pk)
        /\ item.status \notin TerminalOk(pk) \cup TerminalBad(pk)

C19_Witness ==
    /\ ppc = "jobfailed" /\ pk = "video" /\ status = "failed"
    /\ timeout_s = 0 /\ elapsed = 2 /\ nfetch = 1

\* C20: with poll_s > 0 a poller makes at most floor(timeout_s / poll_s) + 2
\* fetches, and when its fetches all returned it ends in one of return,
\* job-failed, timed-out, having slept once fewer than it fetched.
C20_TerminatesBounded ==
    poll_s > 0 =>
        /\ nfetch <= (timeout_s \div poll_s) + 2
        /\ (ppc \notin Running /\ ~fetchErr) =>
                /\ ppc \in {"returned", "jobfailed", "timedout"}
                /\ nsleep = nfetch - 1

====
